---- MODULE Spec2Model ----
(***************************************************************************)
(* Stock advisory and forecast logic of the inventory dashboard.           *)
(*                                                                         *)
(*   - checkLevel / getStockAdvice / getStockStatus  (ProductDot.tsx)      *)
(*   - computeStats and the forecast card's fetch handler                  *)
(*     (AIPredictionCard.tsx)                                              *)
(*                                                                         *)
(*   - generatePositions, the saved positions and the filters of the     *)
(*     floor map (FloorView.tsx, FloorFilters.tsx)                         *)
(*                                                                         *)
(* Spec       : the dashboard receives product snapshots from the backend  *)
(*              and renders the stock advice of the product.               *)
(* SpecStats  : the forecast card receives the transaction history of its  *)
(*              product and derives the statistics from it.                *)
(* SpecLayout : the floor map lays out product lists of growing and        *)
(*              shrinking length, no position being saved.                 *)
(* SpecFloor  : the floor map is mounted over a stored payload; products   *)
(*              are polled, dots are dropped, positions are reset and      *)
(*              filters are toggled.                                       *)
(* SpecDrag   : dots of the floor map are pressed, moved and released in   *)
(*              and out of edit mode (ProductDot.tsx, StoreCanvas.tsx).    *)
(* SpecCard   : the forecast card is mounted, re-rendered for other        *)
(*              products and unmounted while its requests are in flight.   *)
(* SpecManager, SpecManagerFair : products are looked up and transactions  *)
(*              confirmed in the inventory manager (InventoryManager.tsx); *)
(*              the fair version settles every awaited call.               *)
(* SpecScanner : the camera scanner of the inventory manager is toggled,   *)
(*              started and stopped.                                       *)
(***************************************************************************)
EXTENDS Integers, Sequences, FiniteSets

VARIABLES
    product,        \* the Product snapshot being rendered (NoProduct before the first fetch)
    advice,         \* StockAdvice rendered for product
    transactions,   \* res.data of the last transaction fetch of the forecast card
    stats,          \* AIPredictionCard state: stats
    txCount,        \* AIPredictionCard state: txCount
    phase,          \* FloorView: "unmounted", "mounted", or "crashed" (a render threw)
    products,       \* FloorView state: products
    savedPositions, \* FloorView state: savedPositions
    storage,        \* localStorage item stocksync_floor_positions
    filters,        \* FloorView state: filters
    lastAction,     \* the FloorView handler that ran last
    editMode,       \* FloorView state: editMode
    selectedProduct,\* FloorView state: selectedProduct
    dots,           \* ProductDot state (dragging, dragPos) of the dot of each barcode
    loading,        \* AIPredictionCard state: loading
    error,          \* AIPredictionCard state: error
    requests,       \* getTransactionsByBarcode calls of the card not yet settled
    manager,        \* InventoryManager state (product, action, quantity, ..., cameraOpen)
    calls,          \* InventoryManager: awaited backend calls of lookupProduct / handleConfirm
    scanner,        \* InventoryManager: pending start timeouts, scannerRef, Html5Qrcode instances
    refreshLog      \* transactions the backend accepted, calls of onTransactionComplete

cardVars == <<product, advice, transactions, stats, txCount>>
floorVars == <<phase, products, savedPositions, storage, filters, lastAction>>
dotVars == <<editMode, selectedProduct, dots>>
reqVars == <<loading, error, requests>>
mgrVars == <<manager, calls, scanner, refreshLog>>
outsideCard == <<floorVars, dotVars, mgrVars>>
outsideFloor == <<cardVars, reqVars, mgrVars>>
outsideManager == <<cardVars, reqVars, floorVars, dotVars>>
vars == <<product, advice, transactions, stats, txCount,
          phase, products, savedPositions, storage, filters, lastAction,
          editMode, selectedProduct, dots, loading, error, requests,
          manager, calls, scanner, refreshLog>>

(***************************************************************************)
(* Bounds of the model                                                     *)
(***************************************************************************)
MaxFront == 7
MaxBack == 20
MaxThreshold == 6
MaxTx == 2

(***************************************************************************)
(* Product (types/Product.ts): only the fields the logic reads             *)
(***************************************************************************)
Product(f, b, t) == [frontQuantity |-> f, backQuantity |-> b, reorderThreshold |-> t]

NoProduct == [absent |-> TRUE]
NoAdvice == [absent |-> TRUE]

StockProducts ==
    { Product(f, b, t) : f \in 0..MaxFront, b \in 0..MaxBack, t \in 0..MaxThreshold }

(***************************************************************************)
(* Numbers                                                                 *)
(***************************************************************************)
\* Math.ceil of the rational n/d (d > 0): the least integer not below it
MathCeil(n, d) == -((-n) \div d)

\* Template-literal formatting of a non-negative integer: its decimal digits
Digit(k) == <<"0", "1", "2", "3", "4", "5", "6", "7", "8", "9">>[k + 1]

RECURSIVE NumberToString(_)
NumberToString(n) ==
    IF n < 10 THEN <<Digit(n)>>
    ELSE NumberToString(n \div 10) \o <<Digit(n % 10)>>

(***************************************************************************)
(* ProductDot.tsx: stock classification                                    *)
(***************************************************************************)
\* threshold * 0.5 is the rational threshold/2
checkLevel_floorHalf(qty, threshold) ==
    IF qty <= threshold \div 2 THEN "critical"
    ELSE IF qty <= threshold THEN "low"
    ELSE "healthy"

checkLevel_swappedArgs(qty, threshold) ==
    IF threshold <= MathCeil(qty, 2) THEN "critical"
    ELSE IF threshold <= qty THEN "low"
    ELSE "healthy"

checkLevel(qty, threshold) ==
    IF qty <= MathCeil(threshold, 2) THEN "critical"
    ELSE IF qty <= threshold THEN "low"
    ELSE "healthy"

frontLow(frontStatus) == frontStatus # "healthy"

backLow_onlyLow(backStatus) == backStatus = "low"

backLow(backStatus) == backStatus # "healthy"

hasBackup_nonNegative(backQuantity) == backQuantity >= 0

hasBackup(backQuantity) == backQuantity > 0

overall_frontOnly(frontStatus, backStatus) == frontStatus

overall(frontStatus, backStatus) ==
    IF frontStatus = "critical" \/ backStatus = "critical" THEN "critical"
    ELSE IF frontStatus = "low" \/ backStatus = "low" THEN "low"
    ELSE "healthy"

Null == <<>>

frontAdvice(frontStatus, backQuantity) ==
    IF frontStatus = "critical" THEN
        IF hasBackup(backQuantity)
        THEN <<"Critically low - restock from back (">>
                 \o NumberToString(backQuantity) \o <<" available)">>
        ELSE <<"Critically low - no back stock, reorder needed">>
    ELSE IF frontStatus = "low" THEN
        IF hasBackup(backQuantity)
        THEN <<"Running low - restock from back (">>
                 \o NumberToString(backQuantity) \o <<" available)">>
        ELSE <<"Running low - no back stock, consider reorder">>
    ELSE Null

backAdvice(backStatus) ==
    IF backStatus = "critical"
    THEN <<"Critically low - reorder from supplier immediately">>
    ELSE IF backStatus = "low"
    THEN <<"Running low - place supplier reorder soon">>
    ELSE Null

getStockAdvice(p) ==
    LET frontStatus == checkLevel(p.frontQuantity, p.reorderThreshold)
        backStatus == checkLevel(p.backQuantity, p.reorderThreshold)
    IN  [ overall |-> overall(frontStatus, backStatus),
          frontStatus |-> frontStatus,
          backStatus |-> backStatus,
          frontAdvice |-> frontAdvice(frontStatus, p.backQuantity),
          backAdvice |-> backAdvice(backStatus),
          needsRestock |-> frontLow(frontStatus) /\ hasBackup(p.backQuantity),
          needsReorder |-> backLow(backStatus) ]

getStockStatus(p) == getStockAdvice(p).overall

(***************************************************************************)
(* JavaScript numbers: a finite value is the rational n/d in lowest terms  *)
(* (d > 0); NaN and the two infinities are values of their own.  JsNull is *)
(* the null of a `number | null` field.                                    *)
(***************************************************************************)
RECURSIVE Gcd(_, _)
Gcd(a, b) == IF b = 0 THEN a ELSE Gcd(b, a % b)

Abs(n) == IF n < 0 THEN -n ELSE n

Fin(n, d) ==
    LET g == Gcd(Abs(n), d)
    IN  [k |-> "fin", n |-> n \div g, d |-> d \div g]

NaN == [k |-> "nan", n |-> 0, d |-> 1]
PosInf == [k |-> "inf", n |-> 1, d |-> 1]
NegInf == [k |-> "inf", n |-> -1, d |-> 1]
JsNull == [k |-> "null", n |-> 0, d |-> 1]

IsFinite(a) == a.k = "fin"

\* sign of a non-NaN number: -1, 0 or 1
Sign(a) == IF a.n > 0 THEN 1 ELSE IF a.n < 0 THEN -1 ELSE 0

\* a < b for two numbers that are not NaN
Less(a, b) ==
    IF a.k = "inf" /\ b.k = "inf" THEN a.n < b.n
    ELSE IF a.k = "inf" THEN a.n < 0
    ELSE IF b.k = "inf" THEN b.n > 0
    ELSE a.n * b.d < b.n * a.d

\* a > b: false as soon as one operand is NaN
JsGreater(a, b) == a # NaN /\ b # NaN /\ Less(b, a)

\* a - b
JsMinus(a, b) ==
    IF a = NaN \/ b = NaN THEN NaN
    ELSE IF a.k = "inf" /\ b.k = "inf" THEN (IF a.n = b.n THEN NaN ELSE a)
    ELSE IF a.k = "inf" THEN a
    ELSE IF b.k = "inf" THEN (IF b.n > 0 THEN NegInf ELSE PosInf)
    ELSE Fin(a.n * b.d - b.n * a.d, a.d * b.d)

\* a * b
JsTimes(a, b) ==
    IF a = NaN \/ b = NaN THEN NaN
    ELSE IF a.k = "inf" \/ b.k = "inf" THEN
        (IF Sign(a) * Sign(b) = 0 THEN NaN
         ELSE IF Sign(a) * Sign(b) > 0 THEN PosInf ELSE NegInf)
    ELSE Fin(a.n * b.n, a.d * b.d)

\* a / b (a zero divisor is +0: the model's zeros come from sums and differences)
JsDivide(a, b) ==
    IF a = NaN \/ b = NaN THEN NaN
    ELSE IF a.k = "inf" /\ b.k = "inf" THEN NaN
    ELSE IF a.k = "inf" THEN (IF Sign(a) * Sign(b) < 0 THEN NegInf ELSE PosInf)
    ELSE IF b.k = "inf" THEN Fin(0, 1)
    ELSE IF b.n = 0 THEN
        (IF a.n = 0 THEN NaN ELSE IF a.n > 0 THEN PosInf ELSE NegInf)
    ELSE IF b.n > 0 THEN Fin(a.n * b.d, a.d * b.n)
    ELSE Fin(-(a.n * b.d), a.d * (-b.n))

\* Math.floor
MathFloor(a) == IF IsFinite(a) THEN Fin(a.n \div a.d, 1) ELSE a

\* Math.max / Math.min of an argument list: NaN if any argument is NaN,
\* -Infinity / +Infinity for no argument
RECURSIVE MathMax(_)
MathMax(args) ==
    IF Len(args) = 0 THEN NegInf
    ELSE LET rest == MathMax(Tail(args))
         IN  IF Head(args) = NaN \/ rest = NaN THEN NaN
             ELSE IF Less(Head(args), rest) THEN rest ELSE Head(args)

RECURSIVE MathMin(_)
MathMin(args) ==
    IF Len(args) = 0 THEN PosInf
    ELSE LET rest == MathMin(Tail(args))
         IN  IF Head(args) = NaN \/ rest = NaN THEN NaN
             ELSE IF Less(rest, Head(args)) THEN rest ELSE Head(args)

(***************************************************************************)
(* Transaction (types/Transaction.ts)                                      *)
(***************************************************************************)
TransactionTypes == {"CHECKOUT", "RESTOCK", "WASTE", "RECEIVE"}

Transaction(type, qty, at) ==
    [transactionType |-> type, quantity |-> qty, createdAt |-> at]

\* createdAt strings: the timestamp of hour h of day d (counted from the
\* epoch), or a text that is no date
Timestamp(d, h) == [day |-> d, hour |-> h]
Malformed == [text |-> "not-a-date"]

MsPerHour == 1000 * 60 * 60
MsPerDay == 1000 * 60 * 60 * 24

\* new Date(createdAt).getTime(): milliseconds, NaN for an invalid date
DateGetTime(at) ==
    IF at = Malformed THEN NaN
    ELSE Fin(at.day * MsPerDay + at.hour * MsPerHour, 1)

WellFormedDates(txs) == \A i \in 1..Len(txs) : txs[i].createdAt # Malformed

(***************************************************************************)
(* AIPredictionCard.tsx: computeStats                                      *)
(***************************************************************************)
\* transactions.filter(t => t.transactionType === type)
FilterType(txs, type) ==
    SelectSeq(txs, LAMBDA t : t.transactionType = type)

\* list.reduce((s, t) => s + Math.abs(t.quantity), 0)
RECURSIVE SumAbs(_)
SumAbs(txs) ==
    IF Len(txs) = 0 THEN 0
    ELSE Abs(Head(txs).quantity) + SumAbs(Tail(txs))

allDates(txs) == [i \in 1..Len(txs) |-> DateGetTime(txs[i].createdAt)]

daysCovered_checkoutsOnly(txs) ==
    LET dates == allDates(FilterType(txs, "CHECKOUT"))
    IN  MathMax(<<JsDivide(JsMinus(MathMax(dates), MathMin(dates)), Fin(MsPerDay, 1)),
                  Fin(1, 1)>>)

daysCovered_unclamped(txs) ==
    JsDivide(JsMinus(MathMax(allDates(txs)), MathMin(allDates(txs))), Fin(MsPerDay, 1))

daysCovered(txs) ==
    LET oldest == MathMin(allDates(txs))
        newest == MathMax(allDates(txs))
    IN  MathMax(<<JsDivide(JsMinus(newest, oldest), Fin(MsPerDay, 1)), Fin(1, 1)>>)

\* velocity = total / daysCovered, days = floor(quantity / velocity) when
\* velocity > 0, else null
daysUntilEmpty(quantity, velocity) ==
    IF JsGreater(velocity, Fin(0, 1))
    THEN MathFloor(JsDivide(Fin(quantity, 1), velocity))
    ELSE JsNull

wasteRate_ofAllTransactions(totalCheckouts, totalRestocks, totalWaste, totalReceived) ==
    LET totalThroughput == totalCheckouts + totalRestocks + totalWaste + totalReceived
    IN  IF totalThroughput > 0
        THEN JsTimes(JsDivide(Fin(totalWaste, 1), Fin(totalThroughput, 1)), Fin(100, 1))
        ELSE JsNull

wasteRate(totalCheckouts, totalRestocks, totalWaste, totalReceived) ==
    LET totalThroughput == totalCheckouts + totalWaste
    IN  IF totalThroughput > 0
        THEN JsTimes(JsDivide(Fin(totalWaste, 1), Fin(totalThroughput, 1)), Fin(100, 1))
        ELSE JsNull

frontDepletion_totalStock(totalCheckouts, days, p) ==
    IF totalCheckouts > 0
    THEN LET velocity == JsDivide(Fin(totalCheckouts, 1), days)
         IN  [checkoutVelocity |-> velocity,
              daysUntilFrontEmpty |->
                  daysUntilEmpty(p.frontQuantity + p.backQuantity, velocity)]
    ELSE [checkoutVelocity |-> JsNull, daysUntilFrontEmpty |-> JsNull]

\* lines 56-66: checkout velocity and the days until the front is empty
frontDepletion(totalCheckouts, days, p) ==
    IF totalCheckouts > 0
    THEN LET velocity == JsDivide(Fin(totalCheckouts, 1), days)
         IN  [checkoutVelocity |-> velocity,
              daysUntilFrontEmpty |-> daysUntilEmpty(p.frontQuantity, velocity)]
    ELSE [checkoutVelocity |-> JsNull, daysUntilFrontEmpty |-> JsNull]

\* lines 68-76: the back depletes at the restock rate
backDepletion(totalRestocks, days, p) ==
    IF totalRestocks > 0
    THEN daysUntilEmpty(p.backQuantity, JsDivide(Fin(totalRestocks, 1), days))
    ELSE JsNull

computeStats(txs, p) ==
    LET totalCheckouts == SumAbs(FilterType(txs, "CHECKOUT"))
        totalRestocks == SumAbs(FilterType(txs, "RESTOCK"))
        totalWaste == SumAbs(FilterType(txs, "WASTE"))
        totalReceived == SumAbs(FilterType(txs, "RECEIVE"))
        days == daysCovered(txs)
        front == frontDepletion(totalCheckouts, days, p)
    IN  [ totalCheckouts |-> totalCheckouts,
          totalRestocks |-> totalRestocks,
          totalWaste |-> totalWaste,
          totalReceived |-> totalReceived,
          checkoutVelocity |-> front.checkoutVelocity,
          daysUntilFrontEmpty |-> front.daysUntilFrontEmpty,
          daysUntilBackEmpty |-> backDepletion(totalRestocks, days, p),
          wasteRate |-> wasteRate(totalCheckouts, totalRestocks, totalWaste, totalReceived),
          daysCovered |-> days ]

(***************************************************************************)
(* FloorView.tsx: zones, saved positions and their persistence             *)
(***************************************************************************)
MaxFloorProducts == 2
MaxCatalog == 13
MaxDragProducts == 2
MaxRequests == 2
MaxCalls == 2
MaxConfirms == 2
MaxScanners == 2

ZONES ==
    << [name |-> "Retail Floor", xMin |-> 60, xMax |-> 540, yMin |-> 100, yMax |-> 630],
       [name |-> "Accessories", xMin |-> 785, xMax |-> 960, yMin |-> 40, yMax |-> 170],
       [name |-> "Back Storage", xMin |-> 785, xMax |-> 960, yMin |-> 210, yMax |-> 400] >>

ZONE_NAMES == [i \in 1..Len(ZONES) |-> ZONES[i].name]

Undefined == [absent |-> TRUE]

SavedPosition(x, y) == [x |-> x, y |-> y]

\* JavaScript values a parsed payload can be: an object keyed by barcode,
\* null, a number, an (empty) array
EmptyMap == [b \in {} |-> Undefined]
JsonObject(map) == [json |-> "object", map |-> map]
JsonNull == [json |-> "null", map |-> EmptyMap]
JsonNumber == [json |-> "number", map |-> EmptyMap]
JsonArray == [json |-> "array", map |-> EmptyMap]

\* The stored item: absent, or a text.  A text is the empty string, a text
\* that is not JSON, or the JSON text of null, a number, [] or an object
\* written as the list of its "barcode": {"x": .., "y": ..} members.
NoItem == [present |-> FALSE, syntax |-> "none", members |-> <<>>]
Text(syntax, members) == [present |-> TRUE, syntax |-> syntax, members |-> members]

RECURSIVE MembersOf(_, _)
MembersOf(map, keys) ==
    IF keys = {} THEN <<>>
    ELSE LET key == CHOOSE b \in keys : TRUE
         IN  <<[key |-> key, x |-> map[key].x, y |-> map[key].y]>>
                 \o MembersOf(map, keys \ {key})

\* JSON.stringify of a positions object
JSONstringify(positions) ==
    Text("object", MembersOf(positions.map, DOMAIN positions.map))

\* JSON.parse of a text that is JSON
JSONparse(text) ==
    CASE text.syntax = "null" -> JsonNull
      [] text.syntax = "number" -> JsonNumber
      [] text.syntax = "array" -> JsonArray
      [] text.syntax = "object" ->
            JsonObject([b \in {text.members[i].key : i \in 1..Len(text.members)} |->
                LET i == CHOOSE i \in 1..Len(text.members) :
                             /\ text.members[i].key = b
                             /\ \A j \in 1..Len(text.members) :
                                    text.members[j].key = b => j <= i
                IN  SavedPosition(text.members[i].x, text.members[i].y)])

loadSavedPositions_trusting(item) ==
    IF item.present /\ item.syntax # "garbage" /\ item.syntax # "empty"
    THEN JSONparse(item)
    ELSE JsonObject(EmptyMap)

\* JSON.parse accepts any JSON text; only a text that is not JSON throws
loadSavedPositions(item) ==
    IF ~item.present \/ item.syntax = "empty" THEN JsonObject(EmptyMap)
    ELSE IF item.syntax = "garbage" THEN JsonObject(EmptyMap)
    ELSE JSONparse(item)

saveSavedPositions(positions) == JSONstringify(positions)

getZoneForPoint_exclusive(x, y) ==
    LET hits == { i \in 1..Len(ZONES) :
                      /\ x > ZONES[i].xMin /\ x < ZONES[i].xMax
                      /\ y > ZONES[i].yMin /\ y < ZONES[i].yMax }
    IN  IF hits = {} THEN "Retail Floor"
        ELSE ZONES[CHOOSE i \in hits : \A j \in hits : i <= j].name

getZoneForPoint(x, y) ==
    LET hits == { i \in 1..Len(ZONES) :
                      /\ x >= ZONES[i].xMin /\ x <= ZONES[i].xMax
                      /\ y >= ZONES[i].yMin /\ y <= ZONES[i].yMax }
    IN  IF hits = {} THEN "Retail Floor"
        ELSE ZONES[CHOOSE i \in hits : \A j \in hits : i <= j].name

(***************************************************************************)
(* FloorView.tsx: generatePositions                                        *)
(***************************************************************************)
\* barcodes are strings of decimal digits, written as their characters
charCodeAt(c) == 48 + (CHOOSE k \in 0..9 : Digit(k) = c)

\* barcode.split("").reduce((acc, c) => acc + c.charCodeAt(0), 0)
RECURSIVE hash(_)
hash(barcode) ==
    IF Len(barcode) = 0 THEN 0
    ELSE charCodeAt(Head(barcode)) + hash(Tail(barcode))

zoneIndex_inclusiveCuts(barcode) ==
    LET mod == hash(barcode) % 100
    IN  IF mod <= 70 THEN 0 ELSE IF mod <= 85 THEN 1 ELSE 2

\* index into ZONES, counted from 0 as in the source
zoneIndex(barcode) ==
    LET mod == hash(barcode) % 100
    IN  IF mod < 70 THEN 0 ELSE IF mod < 85 THEN 1 ELSE 2

\* Math.ceil(Math.sqrt(n))
CeilSqrt(n) == CHOOSE c \in 0..n : c * c >= n /\ \A e \in 0..n : e * e >= n => c <= e

\* a + b for finite numbers
JsPlus(a, b) == Fin(a.n * b.d + b.n * a.d, a.d * b.d)

clamp_none(lo, hi, v) == v

\* Math.max(lo, Math.min(hi, v))
clamp(lo, hi, v) == MathMax(<<Fin(lo, 1), MathMin(<<Fin(hi, 1), v>>)>>)

gridCell_rowOnly(i, length) ==
    LET cols == CeilSqrt(length)
    IN  [cols |-> cols, row |-> i \div cols, col |-> 0,
         rows |-> MathCeil(length, cols)]

\* lines 94-96, 101: the grid cell of index i (from 0) in a list of the length
gridCell(i, length) ==
    LET cols == CeilSqrt(length)
    IN  [cols |-> cols, row |-> i \div cols, col |-> i % cols,
         rows |-> MathCeil(length, cols)]

\* lines 82-115: the generated position of the product at index i (from 0)
autoPosition(prod, i, length) ==
    LET h == hash(prod.barcode)
        zone == ZONES[zoneIndex(prod.barcode) + 1]
        cell == gridCell(i, length)
        xStep == Fin(zone.xMax - zone.xMin, cell.cols + 1)
        yStep == Fin(zone.yMax - zone.yMin, cell.rows + 1)
        xOff == ((h * 7) % 30) - 15
        yOff == ((h * 13) % 30) - 15
        x == clamp(zone.xMin + 15, zone.xMax - 15,
                   JsPlus(JsPlus(Fin(zone.xMin, 1), JsTimes(xStep, Fin(cell.col + 1, 1))),
                          Fin(xOff, 1)))
        y == clamp(zone.yMin + 15, zone.yMax - 15,
                   JsPlus(JsPlus(Fin(zone.yMin, 1), JsTimes(yStep, Fin(cell.row + 1, 1))),
                          Fin(yOff, 1)))
    IN  [product |-> prod, x |-> x, y |-> y, zone |-> zone.name]

\* saved[barcode]: undefined unless saved is an object with that key
savedEntry(saved, barcode) ==
    IF saved.json = "object" /\ barcode \in DOMAIN saved.map
    THEN saved.map[barcode]
    ELSE Undefined

\* lines 76-79: the saved position is used as it is
savedPositionOf(prod, entry) ==
    [product |-> prod, x |-> Fin(entry.x, 1), y |-> Fin(entry.y, 1),
     zone |-> getZoneForPoint(entry.x, entry.y)]

generatePositions(list, saved) ==
    [i \in 1..Len(list) |->
        IF savedEntry(saved, list[i].barcode) # Undefined
        THEN savedPositionOf(list[i], savedEntry(saved, list[i].barcode))
        ELSE autoPosition(list[i], i - 1, Len(list))]

\* lines 146-149
allPositions == generatePositions(products, savedPositions)

(***************************************************************************)
(* FloorView.tsx / FloorFilters.tsx: filters                               *)
(***************************************************************************)
FilterState(critical, restock, reorder, zone) ==
    [showCriticalOnly |-> critical, showNeedsRestock |-> restock,
     showNeedsReorder |-> reorder, selectedZone |-> zone]

\* lines 127-131: the flags the initial state leaves out are undefined, hence off
InitialFilters == FilterState(FALSE, FALSE, FALSE, "ALL")

filteredPositions_anyFilter(positions, f) ==
    SelectSeq(positions, LAMBDA p :
        \/ (f.showCriticalOnly /\ getStockStatus(p.product) = "critical")
        \/ (f.selectedZone # "ALL" /\ p.zone = f.selectedZone)
        \/ (~f.showCriticalOnly /\ f.selectedZone = "ALL"))

\* lines 152-164
filteredPositions(positions, f) ==
    LET afterCritical ==
            IF f.showCriticalOnly
            THEN SelectSeq(positions, LAMBDA p : getStockStatus(p.product) = "critical")
            ELSE positions
    IN  IF f.selectedZone # "ALL"
        THEN SelectSeq(afterCritical, LAMBDA p : p.zone = f.selectedZone)
        ELSE afterCritical

(***************************************************************************)
(* FloorView.tsx: the product lists the backend returns.  The products of  *)
(* the store are the first entries of a catalog, listed in catalog order;  *)
(* between two polls one product is added, removed or changes its stock.   *)
(***************************************************************************)
Catalog ==
    << <<"9", "9", "9">>, <<"1", "2", "3">>, <<"9", "9", "8">>, <<"3", "2", "1">>,
       <<"9", "9", "7">>, <<"9", "9", "9", "9", "8">>, <<"9", "9", "9", "9", "9">>,
       <<"8", "0", "0", "0">>, <<"7", "0", "0", "0">>, <<"8", "9", "9">>,
       <<"0", "0", "0", "7">>, <<"4", "5">>, <<"9", "9", "9", "9", "3">>,
       <<"1", "2", "3", "4", "5">>, <<"6", "0", "0", "0">> >>

StockPresets == << Product(2, 20, 5), Product(10, 3, 5) >>

FloorProduct(barcode, stock) ==
    [barcode |-> barcode, frontQuantity |-> stock.frontQuantity,
     backQuantity |-> stock.backQuantity, reorderThreshold |-> stock.reorderThreshold]

\* stock presets the k-th catalog product is seen with
StockChoices(k) == IF k <= MaxFloorProducts THEN 1..Len(StockPresets) ELSE {1}

\* a selection maps each catalog index to 0 (not listed) or a stock preset
RECURSIVE ListOf(_, _)
ListOf(sel, n) ==
    IF n = 0 THEN <<>>
    ELSE IF sel[n] = 0 THEN ListOf(sel, n - 1)
    ELSE Append(ListOf(sel, n - 1), FloorProduct(Catalog[n], StockPresets[sel[n]]))

SelectionOf(list, n) ==
    [k \in 1..n |->
        IF \E i \in 1..Len(list) : list[i].barcode = Catalog[k]
        THEN CHOOSE c \in 1..Len(StockPresets) :
                 \E i \in 1..Len(list) : list[i] = FloorProduct(Catalog[k], StockPresets[c])
        ELSE 0]

NextLists(list, n) ==
    LET sel == SelectionOf(list, n)
    IN  { ListOf([sel EXCEPT ![k] = c], n) :
              <<k, c>> \in { kc \in (1..n) \X (0..Len(StockPresets)) :
                                 /\ kc[2] # sel[kc[1]]
                                 /\ kc[2] = 0 \/ kc[2] \in StockChoices(kc[1]) } }

(***************************************************************************)
(* ProductDot.tsx: the drag state of the dots.  StoreCanvas renders one    *)
(* ProductDot per visible position, keyed by barcode; a dot that is not    *)
(* rendered has no state and a dot that is rendered again starts idle.     *)
(***************************************************************************)
\* useState(false), useState(null)
IdleDot == [dragging |-> FALSE, dragPos |-> Undefined]

CatalogBarcodes == { Catalog[k] : k \in 1..Len(Catalog) }

IdleDots == [b \in CatalogBarcodes |-> IdleDot]

\* FloorView: useState(false), useState(null); no dot is rendered yet
NoDrag ==
    /\ editMode = FALSE
    /\ selectedProduct = NoProduct
    /\ dots = IdleDots

\* StoreCanvas: positions.map((p) => <ProductDot key={p.product.barcode} ...>)
renderedBarcodes(list, saved, f) ==
    UNION { { positions[i].product.barcode : i \in 1..Len(positions) } :
                positions \in { filteredPositions(generatePositions(list, saved), f) } }

\* the dots after the next render: the state of a dot no longer rendered is dropped
Rerender(d) ==
    IF d = IdleDots THEN dots' = d
    ELSE \E rendered \in { renderedBarcodes(products', savedPositions', filters') } :
             dots' = [b \in CatalogBarcodes |-> IF b \in rendered THEN d[b] ELSE IdleDot]

(***************************************************************************)
(* FloorView.tsx: handlers                                                 *)
(***************************************************************************)
NoBarcode == <<>>
Did(op, barcode, x, y) == [op |-> op, barcode |-> barcode, x |-> x, y |-> y]
DidOp(op) == Did(op, NoBarcode, 0, 0)

FloorNotOpened ==
    /\ phase = "unmounted"
    /\ products = <<>>
    /\ savedPositions = JsonObject(EmptyMap)
    /\ storage = NoItem
    /\ filters = InitialFilters
    /\ lastAction = DidOp("none")
    /\ NoDrag

\* line 199: Object.keys(savedPositions) throws for null
renderThrows(saved) == saved = JsonNull

\* lines 119-131: first render, savedPositions initialised by loadSavedPositions
Mount ==
    /\ phase = "unmounted"
    /\ savedPositions' = loadSavedPositions(storage)
    /\ phase' = IF renderThrows(savedPositions') THEN "crashed" ELSE "mounted"
    /\ lastAction' = DidOp("mount")
    /\ UNCHANGED <<products, storage, filters>>
    /\ UNCHANGED outsideFloor
    /\ UNCHANGED dotVars

\* lines 133-143: a poll resolves with the product list
FloorFetchProducts(list) ==
    /\ phase = "mounted"
    /\ products' = list
    /\ lastAction' = DidOp("fetch")
    /\ UNCHANGED <<phase, savedPositions, storage, filters>>
    /\ UNCHANGED outsideFloor
    /\ UNCHANGED <<editMode, selectedProduct>>
    /\ Rerender(dots)

\* { ...prev }: the own enumerable properties of prev
spread(prev) == IF prev.json = "object" THEN prev.map ELSE EmptyMap

handleDotDragEnd_onlyDelta(barcode, x, y) ==
    /\ phase = "mounted"
    /\ \E i \in 1..Len(products) : products[i].barcode = barcode
    /\ LET prev == spread(savedPositions)
           next == [b \in DOMAIN prev \cup {barcode} |->
                       IF b = barcode THEN SavedPosition(x, y) ELSE prev[b]]
       IN  /\ savedPositions' = JsonObject(next)
           /\ storage' = saveSavedPositions(
                             JsonObject([b \in {barcode} |-> SavedPosition(x, y)]))
    /\ lastAction' = Did("drag", barcode, x, y)
    /\ UNCHANGED <<phase, products, filters>>
    /\ UNCHANGED outsideFloor
    /\ UNCHANGED <<editMode, selectedProduct>>
    /\ Rerender(dots)

handleDotDragEnd_replacesAll(barcode, x, y) ==
    /\ phase = "mounted"
    /\ \E i \in 1..Len(products) : products[i].barcode = barcode
    /\ LET next == [b \in {barcode} |-> SavedPosition(x, y)]
       IN  /\ savedPositions' = JsonObject(next)
           /\ storage' = saveSavedPositions(JsonObject(next))
    /\ lastAction' = Did("drag", barcode, x, y)
    /\ UNCHANGED <<phase, products, filters>>
    /\ UNCHANGED outsideFloor
    /\ UNCHANGED <<editMode, selectedProduct>>
    /\ Rerender(dots)

\* lines 182-191: a dot of the map was dropped at (x, y)
handleDotDragEnd(barcode, x, y) ==
    /\ phase = "mounted"
    /\ \E i \in 1..Len(products) : products[i].barcode = barcode
    /\ LET prev == spread(savedPositions)
           next == [b \in DOMAIN prev \cup {barcode} |->
                       IF b = barcode THEN SavedPosition(x, y) ELSE prev[b]]
       IN  /\ savedPositions' = JsonObject(next)
           /\ storage' = saveSavedPositions(JsonObject(next))
    /\ lastAction' = Did("drag", barcode, x, y)
    /\ UNCHANGED <<phase, products, filters>>
    /\ UNCHANGED outsideFloor
    /\ UNCHANGED <<editMode, selectedProduct>>
    /\ Rerender(dots)

handleResetPositions_keepsItem ==
    /\ phase = "mounted"
    /\ savedPositions' = JsonObject(EmptyMap)
    /\ lastAction' = DidOp("reset")
    /\ UNCHANGED <<phase, products, storage, filters>>
    /\ UNCHANGED outsideFloor
    /\ UNCHANGED <<editMode, selectedProduct>>
    /\ Rerender(dots)

\* lines 194-197
handleResetPositions ==
    /\ phase = "mounted"
    /\ savedPositions' = JsonObject(EmptyMap)
    /\ storage' = NoItem
    /\ lastAction' = DidOp("reset")
    /\ UNCHANGED <<phase, products, filters>>
    /\ UNCHANGED outsideFloor
    /\ UNCHANGED <<editMode, selectedProduct>>
    /\ Rerender(dots)

\* FloorFilters onChange: the new filter state replaces the old one
setFilters(f) ==
    /\ phase = "mounted"
    /\ filters' = f
    /\ lastAction' = DidOp("filter")
    /\ UNCHANGED <<phase, products, savedPositions, storage>>
    /\ UNCHANGED outsideFloor
    /\ UNCHANGED <<editMode, selectedProduct>>
    /\ Rerender(dots)

ToggleCriticalOnly ==
    setFilters([filters EXCEPT !.showCriticalOnly = ~filters.showCriticalOnly])

ToggleNeedsRestock ==
    setFilters([filters EXCEPT !.showNeedsRestock = ~filters.showNeedsRestock])

ToggleNeedsReorder ==
    setFilters([filters EXCEPT !.showNeedsReorder = ~filters.showNeedsReorder])

SelectZone(zone) ==
    /\ zone # filters.selectedZone
    /\ setFilters([filters EXCEPT !.selectedZone = zone])

(***************************************************************************)
(* ProductDot.tsx: pointer handlers of the dot keyed by barcode, and the   *)
(* FloorView handlers they reach (edit button, click, drag end)            *)
(***************************************************************************)
isRendered(barcode) == barcode \in renderedBarcodes(products, savedPositions, filters)

\* FloorView line 250: the Edit Layout / Done button
ToggleEditMode ==
    /\ phase = "mounted"
    /\ editMode' = ~editMode
    /\ UNCHANGED <<selectedProduct, dots>>
    /\ UNCHANGED floorVars
    /\ UNCHANGED outsideFloor

\* lines 147-157
handlePointerDown(barcode) ==
    /\ phase = "mounted"
    /\ editMode
    /\ isRendered(barcode)
    /\ dots' = [dots EXCEPT ![barcode].dragging = TRUE]
    /\ UNCHANGED <<editMode, selectedProduct>>
    /\ UNCHANGED floorVars
    /\ UNCHANGED outsideFloor

clampToViewBox_unclamped(pos) == pos

\* lines 163-164: Math.max(25, Math.min(975, pos.x)), Math.max(25, Math.min(675, pos.y))
clampToViewBox(pos) ==
    LET min(a, b) == IF a < b THEN a ELSE b
        max(a, b) == IF a > b THEN a ELSE b
    IN  SavedPosition(max(25, min(975, pos.x)), max(25, min(675, pos.y)))

\* lines 159-168; pos is the pointer in viewBox coordinates (screenToSVG)
handlePointerMove(barcode, pos) ==
    /\ phase = "mounted"
    /\ dots[barcode].dragging
    /\ isRendered(barcode)
    /\ dots' = [dots EXCEPT ![barcode].dragPos = clampToViewBox(pos)]
    /\ UNCHANGED <<editMode, selectedProduct>>
    /\ UNCHANGED floorVars
    /\ UNCHANGED outsideFloor

\* FloorView lines 182-191, reached through the onDragEnd prop
onDragEnd(barcode, x, y) ==
    /\ LET prev == spread(savedPositions)
           next == [b \in DOMAIN prev \cup {barcode} |->
                       IF b = barcode THEN SavedPosition(x, y) ELSE prev[b]]
       IN  /\ savedPositions' = JsonObject(next)
           /\ storage' = saveSavedPositions(JsonObject(next))
    /\ lastAction' = Did("drag", barcode, x, y)

handlePointerUp_commitsAlways(barcode) ==
    /\ phase = "mounted"
    /\ dots[barcode].dragging
    /\ isRendered(barcode)
    /\ LET at == IF dots[barcode].dragPos # Undefined THEN dots[barcode].dragPos
                 ELSE SavedPosition(0, 0)
       IN  onDragEnd(barcode, at.x, at.y)
    /\ UNCHANGED <<phase, products, filters>>
    /\ UNCHANGED <<editMode, selectedProduct>>
    /\ Rerender([dots EXCEPT ![barcode] = IdleDot])
    /\ UNCHANGED outsideFloor

handlePointerUp_clearsOthers(barcode) ==
    /\ phase = "mounted"
    /\ dots[barcode].dragging
    /\ isRendered(barcode)
    /\ IF dots[barcode].dragPos # Undefined
       THEN onDragEnd(barcode, dots[barcode].dragPos.x, dots[barcode].dragPos.y)
       ELSE UNCHANGED <<savedPositions, storage, lastAction>>
    /\ UNCHANGED <<phase, products, filters>>
    /\ UNCHANGED <<editMode, selectedProduct>>
    /\ Rerender(IdleDots)
    /\ UNCHANGED outsideFloor

\* lines 170-182
handlePointerUp(barcode) ==
    /\ phase = "mounted"
    /\ dots[barcode].dragging
    /\ isRendered(barcode)
    /\ IF dots[barcode].dragPos # Undefined
       THEN onDragEnd(barcode, dots[barcode].dragPos.x, dots[barcode].dragPos.y)
       ELSE UNCHANGED <<savedPositions, storage, lastAction>>
    /\ UNCHANGED <<phase, products, filters>>
    /\ UNCHANGED <<editMode, selectedProduct>>
    /\ Rerender([dots EXCEPT ![barcode] = IdleDot])
    /\ UNCHANGED outsideFloor

\* lines 184-191, FloorView onProductClick={setSelectedProduct}
handleClick(barcode) ==
    /\ phase = "mounted"
    /\ ~editMode
    /\ isRendered(barcode)
    /\ selectedProduct' =
           products[CHOOSE i \in 1..Len(products) : products[i].barcode = barcode]
    /\ UNCHANGED <<editMode, dots>>
    /\ UNCHANGED floorVars
    /\ UNCHANGED outsideFloor

\* FloorView lines 349-354: the modal is rendered and closed
modalOpen == selectedProduct # NoProduct /\ ~editMode

onClose ==
    /\ phase = "mounted"
    /\ modalOpen
    /\ selectedProduct' = NoProduct
    /\ UNCHANGED <<editMode, dots>>
    /\ UNCHANGED floorVars
    /\ UNCHANGED outsideFloor

(***************************************************************************)
(* AIPredictionCard.tsx: the front / back analysis of the card             *)
(***************************************************************************)
\* line 154
cardFrontLow(p) == p.frontQuantity <= p.reorderThreshold

cardFrontCritical_floorHalf(p) == p.frontQuantity <= p.reorderThreshold \div 2

\* line 155: frontQuantity <= Math.ceil(reorderThreshold * 0.5)
cardFrontCritical(p) == p.frontQuantity <= MathCeil(p.reorderThreshold, 2)

\* line 156
frontHasBackup(p) == p.backQuantity > 0

\* line 160
cardBackLow(p) == p.backQuantity <= p.reorderThreshold

\* line 161
cardBackCritical(p) == p.backQuantity <= MathCeil(p.reorderThreshold, 2)

\* lines 351, 356: the "Restock shelves: move ... from back to front" line is
\* rendered; velocity is whether stats.checkoutVelocity is truthy
offersRestock(p, velocity) ==
    /\ (cardFrontLow(p) \/ cardBackLow(p)) /\ velocity
    /\ cardFrontLow(p) /\ frontHasBackup(p)

(***************************************************************************)
(* InventoryManager.tsx: state                                             *)
(***************************************************************************)
\* type ActionType, null written "null"
NoAction == "null"

\* lines 31-39: the initial state of the component
ManagerState ==
    [barcode |-> <<>>, product |-> NoProduct, action |-> NoAction, quantity |-> 1,
     wasteLocation |-> "FRONT", message |-> "", error |-> "", loading |-> FALSE,
     cameraOpen |-> FALSE]

\* line 41: no scanner created, no start timeout pending
NoScanner == [timers |-> 0, ref |-> 0, instances |-> <<>>, awaited |-> {}]

NothingLogged == [accepted |-> 0, refreshed |-> 0]

ManagerNotShown ==
    /\ manager = ManagerState
    /\ calls = {}
    /\ scanner = NoScanner
    /\ refreshLog = NothingLogged

(***************************************************************************)
(* InventoryManager.tsx: lookupProduct and handleConfirm.  An async        *)
(* handler runs up to its await in one step; the awaited backend call is   *)
(* kept in calls until it resolves or rejects, and the rest of the handler *)
(* runs then.                                                              *)
(***************************************************************************)
ActionTypes == {"checkout", "restock", "receive", "waste"}

\* an awaited call, with the values the handler's closure holds; id tells the
\* runs of the handlers apart
Call(id, kind, prod, action, quantity) ==
    [id |-> id, kind |-> kind, product |-> prod, action |-> action, quantity |-> quantity]

\* the run that starts now
newRun == CHOOSE i \in 1..MaxCalls : \A c \in calls : c.id # i

\* lines 126-146: the message of the action (its first words)
successMessage(action) ==
    CASE action = "checkout" -> "Checked out"
      [] action = "restock" -> "Moved"
      [] action = "receive" -> "Received"
      [] action = "waste" -> "Logged"

TransactionFailed == "Transaction failed. Please check the backend connection."
NoProductFound == "No product found for barcode"
NoCamera == "Could not access camera. Check permissions."

\* lines 56-65: lookupProduct(code) up to the await
lookupStarted(m) ==
    [m EXCEPT !.loading = TRUE, !.error = "", !.message = "",
              !.product = NoProduct, !.action = NoAction]

\* lines 234, 74-79: the Lookup button or Enter in the barcode field
lookupProduct(code) ==
    /\ code # <<>>
    /\ Cardinality(calls) < MaxCalls
    /\ manager' = lookupStarted(manager)
    /\ calls' = calls \cup {Call(newRun, "lookup", [barcode |-> code], NoAction, 0)}
    /\ UNCHANGED refreshLog
    /\ UNCHANGED scanner
    /\ UNCHANGED outsideManager

\* lines 66, 69-71
lookupResolved(c, data) ==
    /\ c \in calls /\ c.kind = "lookup"
    /\ data.barcode = c.product.barcode
    /\ manager' = [manager EXCEPT !.product = data, !.loading = FALSE]
    /\ calls' = calls \ {c}
    /\ UNCHANGED refreshLog
    /\ UNCHANGED scanner
    /\ UNCHANGED outsideManager

\* lines 67-71
lookupRejected(c) ==
    /\ c \in calls /\ c.kind = "lookup"
    /\ manager' = [manager EXCEPT !.error = NoProductFound, !.loading = FALSE]
    /\ calls' = calls \ {c}
    /\ UNCHANGED refreshLog
    /\ UNCHANGED scanner
    /\ UNCHANGED outsideManager

\* lines 341, 366, 376, 397: the action buttons, the location buttons, the quantity input
setAction(a) ==
    /\ manager.product # NoProduct
    /\ a # manager.action
    /\ manager' = [manager EXCEPT !.action = a]
    /\ UNCHANGED <<calls, refreshLog>>
    /\ UNCHANGED scanner
    /\ UNCHANGED outsideManager

setQuantity(q) ==
    /\ manager.action # NoAction
    /\ q # manager.quantity
    /\ manager' = [manager EXCEPT !.quantity = q]
    /\ UNCHANGED <<calls, refreshLog>>
    /\ UNCHANGED scanner
    /\ UNCHANGED outsideManager

setWasteLocation(l) ==
    /\ manager.action = "waste"
    /\ l # manager.wasteLocation
    /\ manager' = [manager EXCEPT !.wasteLocation = l]
    /\ UNCHANGED <<calls, refreshLog>>
    /\ UNCHANGED scanner
    /\ UNCHANGED outsideManager

\* lines 115-125 (131, 137, 143): handleConfirm up to the await of the
\* transaction request; the Confirm button is disabled while loading (line 402)
handleConfirm ==
    /\ ~manager.loading
    /\ manager.product # NoProduct /\ manager.action # NoAction /\ ~(manager.quantity < 1)
    /\ Cardinality(calls) < MaxCalls
    /\ manager' = [manager EXCEPT !.loading = TRUE, !.error = "", !.message = ""]
    /\ calls' = calls \cup
                    {Call(newRun, "transaction", manager.product, manager.action, manager.quantity)}
    /\ UNCHANGED refreshLog
    /\ UNCHANGED scanner
    /\ UNCHANGED outsideManager

\* lines 126-150: the backend accepted the transaction; the message is set
\* and the product is requested again
transactionAccepted(c) ==
    /\ c \in calls /\ c.kind = "transaction"
    /\ refreshLog.accepted < MaxConfirms
    /\ manager' = [manager EXCEPT !.message = successMessage(c.action)]
    /\ calls' = (calls \ {c}) \cup {Call(c.id, "refetch", c.product, c.action, c.quantity)}
    /\ refreshLog' = [refreshLog EXCEPT !.accepted = @ + 1]
    /\ UNCHANGED scanner
    /\ UNCHANGED outsideManager

transactionRejected_resetsForm(c) ==
    /\ c \in calls /\ c.kind = "transaction"
    /\ manager' = [manager EXCEPT !.error = TransactionFailed, !.loading = FALSE,
                                   !.action = NoAction, !.quantity = 1,
                                   !.wasteLocation = "FRONT"]
    /\ calls' = calls \ {c}
    /\ UNCHANGED refreshLog
    /\ UNCHANGED scanner
    /\ UNCHANGED outsideManager

\* lines 156-160: the transaction request failed
transactionRejected(c) ==
    /\ c \in calls /\ c.kind = "transaction"
    /\ manager' = [manager EXCEPT !.error = TransactionFailed, !.loading = FALSE]
    /\ calls' = calls \ {c}
    /\ UNCHANGED refreshLog
    /\ UNCHANGED scanner
    /\ UNCHANGED outsideManager

\* lines 151-155, 158-160: the product arrived; onTransactionComplete is called
refetchResolved(c, data) ==
    /\ c \in calls /\ c.kind = "refetch"
    /\ data.barcode = c.product.barcode
    /\ manager' = [manager EXCEPT !.product = data, !.action = NoAction, !.quantity = 1,
                                   !.wasteLocation = "FRONT", !.loading = FALSE]
    /\ calls' = calls \ {c}
    /\ refreshLog' = [refreshLog EXCEPT !.refreshed = @ + 1]
    /\ UNCHANGED scanner
    /\ UNCHANGED outsideManager

\* lines 150, 156-160: the request of the product failed
refetchRejected(c) ==
    /\ c \in calls /\ c.kind = "refetch"
    /\ manager' = [manager EXCEPT !.error = TransactionFailed, !.loading = FALSE]
    /\ calls' = calls \ {c}
    /\ UNCHANGED refreshLog
    /\ UNCHANGED scanner
    /\ UNCHANGED outsideManager

(***************************************************************************)
(* InventoryManager.tsx: toggleCamera.  Each `new Html5Qrcode` is an       *)
(* instance of the scanner: "starting" while its start() is awaited,       *)
(* "scanning" once start() resolved (isScanning is true from then on),     *)
(* "stopping" while a stop() is in progress, then "stopped"; "failed" when *)
(* start() rejected.  scanner.ref is scannerRef.current (0 for null),      *)
(* scanner.timers the number of pending 100 ms timeouts, scanner.awaited   *)
(* the instances whose stop() a run of toggleCamera awaits.                *)
(***************************************************************************)
isScanning(i) == i # 0 /\ scanner.instances[i] \in {"scanning", "stopping"}

\* lines 257-262: the element the scanner is attached to is rendered
readerRendered == manager.cameraOpen

\* lines 81-92: toggleCamera up to its await, or to the setTimeout
toggleCamera ==
    /\ IF manager.cameraOpen
       THEN IF isScanning(scanner.ref)
            THEN /\ scanner.instances[scanner.ref] = "scanning"
                 /\ scanner' = [scanner EXCEPT !.instances[scanner.ref] = "stopping",
                                               !.awaited = @ \cup {scanner.ref}]
                 /\ UNCHANGED manager
            ELSE /\ manager' = [manager EXCEPT !.cameraOpen = FALSE]
                 /\ UNCHANGED scanner
       ELSE /\ Len(scanner.instances) + scanner.timers < MaxScanners
            /\ manager' = [manager EXCEPT !.cameraOpen = TRUE]
            /\ scanner' = [scanner EXCEPT !.timers = @ + 1]
    /\ UNCHANGED <<calls, refreshLog>>
    /\ UNCHANGED outsideManager

\* lines 92-97, 108-112: the timeout fires; the constructor throws when the
\* element is not in the document
timerFires ==
    /\ scanner.timers > 0
    /\ IF readerRendered
       THEN /\ scanner' = [scanner EXCEPT !.timers = @ - 1,
                                          !.instances = Append(@, "starting"),
                                          !.ref = Len(scanner.instances) + 1]
            /\ UNCHANGED manager
       ELSE /\ scanner' = [scanner EXCEPT !.timers = @ - 1]
            /\ manager' = [manager EXCEPT !.error = NoCamera, !.cameraOpen = FALSE]
    /\ UNCHANGED <<calls, refreshLog>>
    /\ UNCHANGED outsideManager

\* line 97: start() resolves, the camera is on and frames are decoded
startResolves(i) ==
    /\ i \in 1..Len(scanner.instances)
    /\ scanner.instances[i] = "starting"
    /\ scanner' = [scanner EXCEPT !.instances[i] = "scanning"]
    /\ UNCHANGED <<manager, calls, refreshLog>>
    /\ UNCHANGED outsideManager

\* lines 97, 108-111: start() rejects
startRejects(i) ==
    /\ i \in 1..Len(scanner.instances)
    /\ scanner.instances[i] = "starting"
    /\ scanner' = [scanner EXCEPT !.instances[i] = "failed"]
    /\ manager' = [manager EXCEPT !.error = NoCamera, !.cameraOpen = FALSE]
    /\ UNCHANGED <<calls, refreshLog>>
    /\ UNCHANGED outsideManager

\* lines 100-105: a barcode was decoded by instance i
scanCallback(i, decodedText) ==
    /\ i \in 1..Len(scanner.instances)
    /\ scanner.instances[i] = "scanning"
    /\ decodedText # <<>>
    /\ Cardinality(calls) < MaxCalls
    /\ manager' = [lookupStarted(manager) EXCEPT !.barcode = decodedText,
                                                 !.cameraOpen = FALSE]
    /\ calls' = calls \cup {Call(newRun, "lookup", [barcode |-> decodedText], NoAction, 0)}
    /\ scanner' = [scanner EXCEPT !.instances[i] = "stopping"]
    /\ UNCHANGED refreshLog
    /\ UNCHANGED outsideManager

\* lines 84-87: stop() resolves; a run of toggleCamera that awaited it goes on
stopResolves(i) ==
    /\ i \in 1..Len(scanner.instances)
    /\ scanner.instances[i] = "stopping"
    /\ scanner' = [scanner EXCEPT !.instances[i] = "stopped", !.awaited = @ \ {i}]
    /\ manager' = IF i \in scanner.awaited
                  THEN [manager EXCEPT !.cameraOpen = FALSE]
                  ELSE manager
    /\ UNCHANGED <<calls, refreshLog>>
    /\ UNCHANGED outsideManager

(***************************************************************************)
(* Spec: product snapshots arrive from the backend and are rendered        *)
(***************************************************************************)
NoStats == [absent |-> TRUE]

\* lines 96-97: useState(true), useState(false); nothing requested yet
NoRequest ==
    /\ loading = TRUE
    /\ error = FALSE
    /\ requests = {}

Init ==
    /\ ManagerNotShown
    /\ product = NoProduct
    /\ advice = NoAdvice
    /\ transactions = <<>>
    /\ stats = NoStats
    /\ txCount = 0
    /\ NoRequest
    /\ FloorNotOpened

\* App.fetchProducts resolves with a product; the dot of the product re-renders
fetchProducts(p) ==
    /\ product' = p
    /\ advice' = getStockAdvice(p)
    /\ UNCHANGED <<transactions, stats, txCount>>
    /\ UNCHANGED reqVars
    /\ UNCHANGED outsideCard

Next == \E p \in StockProducts : fetchProducts(p)

Spec == Init /\ [][Next]_vars

(***************************************************************************)
(* SpecStats: the forecast card of a product.  Its effect re-runs whenever *)
(* the product prop changes (the dashboard re-fetches the products after   *)
(* every transaction), fetches the transaction history of the barcode and  *)
(* derives the statistics from the response.                               *)
(***************************************************************************)
StatFronts == {0, 5}
StatBacks == {0, 7}
StatProducts == { Product(f, b, 5) : f \in StatFronts, b \in StatBacks }

TxQuantities == {-3, 0, 10}
CreatedAts == {Timestamp(0, 0), Timestamp(0, 12), Timestamp(5, 0), Malformed}
Transactions ==
    { Transaction(type, qty, at) :
          type \in TransactionTypes, qty \in TxQuantities, at \in CreatedAts }

InitStats ==
    /\ ManagerNotShown
    /\ product \in StatProducts
    /\ advice = NoAdvice
    /\ transactions = <<>>
    /\ stats = NoStats
    /\ txCount = 0
    /\ NoRequest
    /\ FloorNotOpened

\* lines 104-115: the response handler of the effect run for product p
fetchThen(data, p) ==
    /\ transactions' = data
    /\ txCount' = Len(data)
    /\ stats' = IF Len(data) = 0 THEN NoStats ELSE computeStats(data, p)
    /\ loading' = FALSE

\* a transaction was recorded; the card is re-rendered with the re-fetched
\* product and receives the history, newest first
TransactionLogged(t) ==
    /\ Len(transactions) < MaxTx
    /\ fetchThen(<<t>> \o transactions, product)
    /\ UNCHANGED <<product, advice>>
    /\ UNCHANGED <<error, requests>>
    /\ UNCHANGED outsideCard

\* the product prop changes; the history is fetched again
ProductChanged(p) ==
    /\ p # product
    /\ product' = p
    /\ fetchThen(transactions, p)
    /\ UNCHANGED advice
    /\ UNCHANGED <<error, requests>>
    /\ UNCHANGED outsideCard

NextStats ==
    \/ \E t \in Transactions : TransactionLogged(t)
    \/ \E p \in StatProducts : ProductChanged(p)

SpecStats == InitStats /\ [][NextStats]_vars

(***************************************************************************)
(* SpecLayout: the floor map, mounted with nothing stored, lays out the    *)
(* product lists the polls return.                                         *)
(***************************************************************************)
CardNotShown ==
    /\ product = NoProduct
    /\ advice = NoAdvice
    /\ transactions = <<>>
    /\ stats = NoStats
    /\ txCount = 0
    /\ NoRequest

InitLayout ==
    /\ ManagerNotShown
    /\ CardNotShown
    /\ phase = "mounted"
    /\ products = <<>>
    /\ savedPositions = JsonObject(EmptyMap)
    /\ storage = NoItem
    /\ filters = InitialFilters
    /\ lastAction = DidOp("mount")
    /\ NoDrag

NextLayout == \E list \in NextLists(products, MaxCatalog) : FloorFetchProducts(list)

SpecLayout == InitLayout /\ [][NextLayout]_vars

(***************************************************************************)
(* SpecFloor: the floor map is opened over whatever the storage holds.     *)
(***************************************************************************)
\* points a dot is dropped at: a corner of Back Storage, a point outside
\* every zone, a corner of Retail Floor
DragPoints == { SavedPosition(785, 210), SavedPosition(600, 50), SavedPosition(540, 630) }

InitialItems ==
    { NoItem, Text("empty", <<>>), Text("garbage", <<>>), Text("null", <<>>),
      Text("number", <<>>), Text("array", <<>>),
      JSONstringify(JsonObject([b \in {Catalog[1]} |-> SavedPosition(600, 50)])) }

FloorBarcodes == { Catalog[k] : k \in 1..MaxFloorProducts }

ZoneChoices == {"ALL"} \cup { ZONE_NAMES[i] : i \in 1..Len(ZONE_NAMES) }

InitFloor ==
    /\ ManagerNotShown
    /\ CardNotShown
    /\ phase = "unmounted"
    /\ products = <<>>
    /\ savedPositions = JsonObject(EmptyMap)
    /\ storage \in InitialItems
    /\ filters = InitialFilters
    /\ lastAction = DidOp("none")
    /\ NoDrag

NextFloor ==
    \/ Mount
    \/ \E list \in NextLists(products, MaxFloorProducts) : FloorFetchProducts(list)
    \/ \E b \in FloorBarcodes, pt \in DragPoints : handleDotDragEnd(b, pt.x, pt.y)
    \/ handleResetPositions
    \/ ToggleCriticalOnly
    \/ ToggleNeedsRestock
    \/ ToggleNeedsReorder
    \/ \E zone \in ZoneChoices : SelectZone(zone)

SpecFloor == InitFloor /\ [][NextFloor]_vars

(***************************************************************************)
(* SpecDrag: the floor map, mounted over an empty store, in which dots are *)
(* dragged with any interleaving of the pointer events of different dots,  *)
(* the edit button, clicks, polls and resets.                              *)
(***************************************************************************)
\* pointer positions in viewBox coordinates: one outside the viewBox, one inside
PointerPoints == { SavedPosition(-40, 710), SavedPosition(600, 50) }

DragBarcodes == { Catalog[k] : k \in 1..MaxDragProducts }

\* the lists a poll can return: any of the first catalog products, one stock level
DragLists ==
    { ListOf(sel, MaxDragProducts) : sel \in [1..MaxDragProducts -> {0, 1}] }

InitDrag ==
    /\ ManagerNotShown
    /\ CardNotShown
    /\ phase = "mounted"
    /\ products = <<>>
    /\ savedPositions = JsonObject(EmptyMap)
    /\ storage = NoItem
    /\ filters = InitialFilters
    /\ lastAction = DidOp("mount")
    /\ NoDrag

NextDrag ==
    \/ \E list \in DragLists : FloorFetchProducts(list)
    \/ ToggleEditMode
    \/ \E b \in DragBarcodes : handlePointerDown(b)
    \/ \E b \in DragBarcodes, pos \in PointerPoints : handlePointerMove(b, pos)
    \/ \E b \in DragBarcodes : handlePointerUp(b)
    \/ \E b \in DragBarcodes : handleClick(b)
    \/ onClose
    \/ handleResetPositions

SpecDrag == InitDrag /\ [][NextDrag]_vars

(***************************************************************************)
(* SpecCard: the forecast card is mounted, its product prop changes, it is *)
(* unmounted, and the transaction requests settle in any order.            *)
(***************************************************************************)
\* what the backend answers to a request: the history, or a failure
Ok(data) == [ok |-> TRUE, data |-> data]
Failed == [ok |-> FALSE, data |-> <<>>]

\* lines 101-103: a call of the effect, with its own cancelled flag and the
\* product of its closure
Request(p, response) == [product |-> p, cancelled |-> FALSE, response |-> response]

\* lines 121-123: the cleanup of the previous effect
cleanup(reqs) == { [r EXCEPT !.cancelled = TRUE] : r \in reqs }

\* lines 100-126: the effect runs for the product p
effect(p, response) ==
    /\ Cardinality(requests) < MaxRequests
    /\ requests' = cleanup(requests) \cup {Request(p, response)}

\* lines 94-98: the card is rendered for the first time
MountCard(p, response) ==
    /\ product = NoProduct
    /\ product' = p
    /\ stats' = NoStats
    /\ txCount' = 0
    /\ transactions' = <<>>
    /\ loading' = TRUE
    /\ error' = FALSE
    /\ effect(p, response)
    /\ UNCHANGED advice
    /\ UNCHANGED outsideCard

\* line 126: the product prop is a new object
propChanged(p, response) ==
    /\ product # NoProduct
    /\ product' = p
    /\ effect(p, response)
    /\ UNCHANGED <<advice, transactions, stats, txCount, loading, error>>
    /\ UNCHANGED outsideCard

\* lines 121-123: the card is removed
UnmountCard ==
    /\ product # NoProduct
    /\ product' = NoProduct
    /\ requests' = cleanup(requests)
    /\ UNCHANGED <<advice, transactions, stats, txCount, loading, error>>
    /\ UNCHANGED outsideCard

thenHandler_ignoresCancelled(r) ==
    /\ r \in requests
    /\ r.response.ok
    /\ requests' = requests \ {r}
    /\ fetchThen(r.response.data, r.product)
    /\ UNCHANGED error
    /\ UNCHANGED <<product, advice>>
    /\ UNCHANGED outsideCard

\* lines 104-115: the request r resolves
thenHandler(r) ==
    /\ r \in requests
    /\ r.response.ok
    /\ requests' = requests \ {r}
    /\ IF r.cancelled
       THEN UNCHANGED <<transactions, stats, txCount, loading, error>>
       ELSE fetchThen(r.response.data, r.product) /\ UNCHANGED error
    /\ UNCHANGED <<product, advice>>
    /\ UNCHANGED outsideCard

\* lines 116-121: the request r is rejected
catchHandler(r) ==
    /\ r \in requests
    /\ ~r.response.ok
    /\ requests' = requests \ {r}
    /\ IF r.cancelled
       THEN UNCHANGED <<loading, error>>
       ELSE error' = TRUE /\ loading' = FALSE
    /\ UNCHANGED <<product, advice, transactions, stats, txCount>>
    /\ UNCHANGED outsideCard

CardProducts == { Product(5, 7, 5), Product(0, 7, 5) }

Responses ==
    { Failed, Ok(<<>>), Ok(<<Transaction("CHECKOUT", -3, Timestamp(0, 0))>>) }

AllRequests ==
    { [product |-> p, cancelled |-> c, response |-> a] :
          p \in CardProducts, c \in BOOLEAN, a \in Responses }

InitCard ==
    /\ ManagerNotShown
    /\ CardNotShown
    /\ FloorNotOpened

NextCard ==
    \/ \E p \in CardProducts, a \in Responses : MountCard(p, a)
    \/ \E p \in CardProducts, a \in Responses : propChanged(p, a)
    \/ UnmountCard
    \/ \E r \in AllRequests : thenHandler(r)
    \/ \E r \in AllRequests : catchHandler(r)

SpecCard == InitCard /\ [][NextCard]_vars

(***************************************************************************)
(* SpecManager: products are looked up and transactions confirmed; the     *)
(* backend answers each call or fails.  SpecManagerFair: every awaited     *)
(* call is eventually settled.                                             *)
(***************************************************************************)
ManagerProducts == { FloorProduct(Catalog[1], StockPresets[1]) }

Quantities == {0, 3}

ConfirmActions == {"checkout", "waste"}

\* the calls that can be awaited
LookupCalls ==
    { Call(id, "lookup", [barcode |-> prod.barcode], NoAction, 0) :
          id \in 1..MaxCalls, prod \in ManagerProducts }

AllCalls ==
    { Call(id, kind, prod, action, quantity) :
          id \in 1..MaxCalls, kind \in {"transaction", "refetch"}, prod \in ManagerProducts,
          action \in ConfirmActions, quantity \in Quantities \cup {1} }
    \cup LookupCalls

InitManager ==
    /\ ManagerNotShown
    /\ CardNotShown
    /\ FloorNotOpened

\* the continuations of the awaited calls
Settle ==
    \/ \E c \in AllCalls, data \in ManagerProducts : lookupResolved(c, data)
    \/ \E c \in AllCalls : lookupRejected(c)
    \/ \E c \in AllCalls : transactionAccepted(c)
    \/ \E c \in AllCalls : transactionRejected(c)
    \/ \E c \in AllCalls, data \in ManagerProducts : refetchResolved(c, data)
    \/ \E c \in AllCalls : refetchRejected(c)

NextManager ==
    \/ \E prod \in ManagerProducts : lookupProduct(prod.barcode)
    \/ \E a \in ConfirmActions : setAction(a)
    \/ \E q \in Quantities : setQuantity(q)
    \/ \E l \in {"FRONT", "BACK"} : setWasteLocation(l)
    \/ handleConfirm
    \/ Settle

SpecManager == InitManager /\ [][NextManager]_vars

SpecManagerFair == SpecManager /\ WF_vars(Settle)

(***************************************************************************)
(* SpecScanner: the camera button is pressed at any time; timeouts fire,   *)
(* start() and stop() settle and barcodes are decoded in any order.        *)
(***************************************************************************)
NextScanner ==
    \/ toggleCamera
    \/ timerFires
    \/ \E i \in 1..MaxScanners : startResolves(i)
    \/ \E i \in 1..MaxScanners : startRejects(i)
    \/ \E i \in 1..MaxScanners, prod \in ManagerProducts : scanCallback(i, prod.barcode)
    \/ \E i \in 1..MaxScanners : stopResolves(i)
    \/ \E c \in LookupCalls, data \in ManagerProducts : lookupResolved(c, data)
    \/ \E c \in LookupCalls : lookupRejected(c)

SpecScanner == InitManager /\ [][NextScanner]_vars

(***************************************************************************)
(* Properties of the stock classification (checked under Spec)             *)
(***************************************************************************)
Rendered == product # NoProduct

\* critical > low > healthy
Severity(status) ==
    CASE status = "critical" -> 2
      [] status = "low" -> 1
      [] status = "healthy" -> 0

\* the least integer k with k >= t/2, for t >= 0
LeastAtLeastHalf(t) ==
    CHOOSE k \in 0..t : 2 * k >= t /\ \A j \in 0..t : 2 * j >= t => k <= j

ExpectedLevel(q, t) ==
    IF q <= LeastAtLeastHalf(t) THEN "critical"
    ELSE IF q <= t THEN "low"
    ELSE "healthy"

C1_LevelsState ==
    Rendered =>
        /\ advice.frontStatus = ExpectedLevel(product.frontQuantity, product.reorderThreshold)
        /\ advice.backStatus = ExpectedLevel(product.backQuantity, product.reorderThreshold)

C1_IndependentStep ==
    (Rendered /\ product'.reorderThreshold = product.reorderThreshold) =>
        /\ product'.frontQuantity = product.frontQuantity
               => advice'.frontStatus = advice.frontStatus
        /\ product'.backQuantity = product.backQuantity
               => advice'.backStatus = advice.backStatus

\* C1: checkLevel(q, t) is critical when q <= ceil(t * 0.5), low when it is
\* not critical and q <= t, healthy otherwise; frontStatus depends only on
\* (frontQuantity, reorderThreshold) and backStatus only on (backQuantity,
\* reorderThreshold).
C1_CheckLevelTiers == []C1_LevelsState /\ [][C1_IndependentStep]_vars

C1_Witness ==
    /\ Rendered
    /\ product.reorderThreshold = 5
    /\ advice.frontStatus = "critical"
    /\ advice.backStatus = "healthy"

\* C2: a quantity is classified critical exactly when it is at or below half
\* the reorder threshold, i.e. checkLevel(q, t) = critical iff 2*q <= t.
C2_CriticalIffAtMostHalf ==
    Rendered =>
        /\ advice.frontStatus = "critical"
               <=> 2 * product.frontQuantity <= product.reorderThreshold
        /\ advice.backStatus = "critical"
               <=> 2 * product.backQuantity <= product.reorderThreshold

C3_MonotonicStep ==
    (Rendered /\ product'.reorderThreshold = product.reorderThreshold) =>
        /\ product.frontQuantity <= product'.frontQuantity
               => Severity(advice'.frontStatus) <= Severity(advice.frontStatus)
        /\ product.backQuantity <= product'.backQuantity
               => Severity(advice'.backStatus) <= Severity(advice.backStatus)

C3_MonotonicState ==
    (Rendered /\ product.frontQuantity <= product.backQuantity) =>
        Severity(advice.backStatus) <= Severity(advice.frontStatus)

\* C3: checkLevel is monotonic in the quantity: for a fixed threshold and
\* q1 <= q2 the severity of checkLevel(q2, t) is never higher than that of
\* checkLevel(q1, t).
C3_CheckLevelMonotonic == []C3_MonotonicState /\ [][C3_MonotonicStep]_vars

C3_Witness ==
    /\ Rendered
    /\ product.frontQuantity < product.backQuantity
    /\ advice.frontStatus = "critical"
    /\ advice.backStatus = "low"

Worse(s1, s2) == IF Severity(s1) >= Severity(s2) THEN s1 ELSE s2

\* C4: the overall status of getStockAdvice, and the status getStockStatus
\* returns, is the worse of frontStatus and backStatus.
C4_OverallIsWorst ==
    Rendered =>
        /\ advice.overall = Worse(advice.frontStatus, advice.backStatus)
        /\ getStockStatus(product) = Worse(advice.frontStatus, advice.backStatus)

C4_Witness ==
    /\ Rendered
    /\ advice.frontStatus = "healthy"
    /\ advice.backStatus = "critical"
    /\ advice.overall = "critical"

\* reading a decimal numeral back
DigitValue(c) == CHOOSE k \in 0..9 : Digit(k) = c

RECURSIVE ParseDigits(_)
ParseDigits(ds) ==
    IF Len(ds) = 0 THEN 0
    ELSE 10 * ParseDigits(SubSeq(ds, 1, Len(ds) - 1)) + DigitValue(ds[Len(ds)])

\* the number an advice text "... restock from back (N available)" names, -1 if none
CitedAvailable(text) ==
    IF Len(text) >= 3 /\ text[Len(text)] = " available)"
    THEN ParseDigits(SubSeq(text, 2, Len(text) - 1))
    ELSE -1

\* C5: needsRestock holds exactly when frontStatus is not healthy and
\* backQuantity > 0; then frontAdvice is present and cites the current
\* backQuantity as available; frontAdvice is null when the front is healthy.
C5_NeedsRestock ==
    Rendered =>
        /\ advice.needsRestock
               <=> (advice.frontStatus # "healthy" /\ product.backQuantity > 0)
        /\ advice.needsRestock =>
               /\ advice.frontAdvice # Null
               /\ CitedAvailable(advice.frontAdvice) = product.backQuantity
        /\ advice.frontStatus = "healthy" => advice.frontAdvice = Null
        /\ product = Product(2, 20, 5) =>
               /\ advice.needsRestock
               /\ CitedAvailable(advice.frontAdvice) = 20

C5_Witness ==
    /\ product = Product(2, 20, 5)
    /\ advice.needsRestock
    /\ advice.frontAdvice # Null

\* C6: needsReorder holds exactly when backStatus is not healthy, whatever
\* the front quantity; a product with backQuantity = 0 has needsReorder,
\* not needsRestock, and overall = critical.
C6_NeedsReorder ==
    Rendered =>
        /\ advice.needsReorder <=> advice.backStatus # "healthy"
        /\ advice.needsReorder <=> product.backQuantity <= product.reorderThreshold
        /\ product.backQuantity = 0 =>
               /\ advice.needsReorder
               /\ ~advice.needsRestock
               /\ advice.overall = "critical"

C6_Witness ==
    /\ product = Product(2, 0, 5)
    /\ advice.needsReorder
    /\ ~advice.needsRestock
    /\ advice.overall = "critical"

(***************************************************************************)
(* Properties of computeStats (checked under SpecStats)                    *)
(***************************************************************************)
HasStats == stats # NoStats

\* sum of the absolute quantities of the transactions of the given types
RECURSIVE AbsTotalUpTo(_, _, _)
AbsTotalUpTo(txs, types, i) ==
    IF i = 0 THEN 0
    ELSE AbsTotalUpTo(txs, types, i - 1)
             + (IF txs[i].transactionType \in types
                THEN (IF txs[i].quantity < 0 THEN -txs[i].quantity ELSE txs[i].quantity)
                ELSE 0)

AbsTotal(txs, types) == AbsTotalUpTo(txs, types, Len(txs))

WasteRateShown == IF HasStats THEN stats.wasteRate ELSE JsNull

C7_RateState ==
    LET w == AbsTotal(transactions, {"WASTE"})
        through == AbsTotal(transactions, {"CHECKOUT", "WASTE"})
    IN  /\ computeStats(<<>>, product).wasteRate = JsNull
        /\ HasStats =>
               IF through = 0 THEN stats.wasteRate = JsNull
               ELSE /\ stats.wasteRate.k = "fin"
                    /\ stats.wasteRate.n * through = 100 * w * stats.wasteRate.d
                    /\ 0 <= stats.wasteRate.n
                    /\ stats.wasteRate.n <= 100 * stats.wasteRate.d

C7_RestockReceiveStep ==
    (/\ Len(transactions') = Len(transactions) + 1
     /\ Tail(transactions') = transactions
     /\ Head(transactions').transactionType \in {"RESTOCK", "RECEIVE"})
        => stats'.wasteRate = WasteRateShown

\* C7: wasteRate is null when totalCheckouts + totalWaste = 0 and otherwise
\* totalWaste / (totalCheckouts + totalWaste) * 100, within [0, 100]; RESTOCK
\* and RECEIVE transactions never change it.
C7_WasteRate == []C7_RateState /\ [][C7_RestockReceiveStep]_vars

C7_Witness ==
    /\ HasStats
    /\ stats.wasteRate = Fin(300, 13)
    /\ \E i \in 1..Len(transactions) : transactions[i].quantity < 0

\* hours between the earliest and the latest createdAt of the list
HourOf(at) == at.day * 24 + at.hour

SpanHours(txs) ==
    LET spans == { HourOf(txs[j].createdAt) - HourOf(txs[i].createdAt) :
                       i, j \in 1..Len(txs) }
    IN  CHOOSE h \in spans : \A g \in spans : g <= h

C9_VelocityState ==
    (HasStats /\ WellFormedDates(transactions)) =>
        LET sum == AbsTotal(transactions, {"CHECKOUT"})
            v == stats.checkoutVelocity
            dc == stats.daysCovered
            days == stats.daysUntilFrontEmpty
        IN  /\ sum = 0 => v = JsNull
            /\ sum > 0 => /\ v.k = "fin"
                          /\ v.n * dc.n = sum * dc.d * v.d
            /\ days = JsNull <=> v = JsNull
            /\ v # JsNull =>
                   /\ days.k = "fin" /\ days.d = 1
                   /\ days.n * v.n <= product.frontQuantity * v.d
                   /\ product.frontQuantity * v.d < (days.n + 1) * v.n
            /\ (/\ transactions = << Transaction("CHECKOUT", 10, Timestamp(5, 0)),
                                     Transaction("CHECKOUT", 10, Timestamp(0, 0)) >>
                /\ product.frontQuantity = 5)
                   => /\ dc = Fin(5, 1)
                      /\ v = Fin(4, 1)
                      /\ days = Fin(1, 1)

C9_FrontOnlyStep ==
    (/\ HasStats
     /\ transactions' = transactions
     /\ product'.frontQuantity = product.frontQuantity)
        => stats'.daysUntilFrontEmpty = stats.daysUntilFrontEmpty

NullOrValid(x) == x.k \in {"null", "fin"}

\* C10: computeStats never raises and never returns an invalid number: for
\* an empty list, or a list with a malformed createdAt, the fields that
\* cannot be derived are null and daysCovered is still >= 1.
C10_NullNotInvalid ==
    /\ LET e == computeStats(<<>>, product)
       IN  /\ e.checkoutVelocity = JsNull /\ e.daysUntilFrontEmpty = JsNull
           /\ e.daysUntilBackEmpty = JsNull /\ e.wasteRate = JsNull
           /\ e.daysCovered.k = "fin" /\ e.daysCovered.n >= e.daysCovered.d
    /\ (HasStats /\ ~WellFormedDates(transactions)) =>
           /\ stats.checkoutVelocity = JsNull
           /\ stats.daysUntilFrontEmpty = JsNull
           /\ stats.daysUntilBackEmpty = JsNull
           /\ NullOrValid(stats.wasteRate)
           /\ stats.daysCovered.k = "fin"
           /\ stats.daysCovered.n >= stats.daysCovered.d

(***************************************************************************)
(* Properties of generatePositions (checked under SpecLayout)              *)
(***************************************************************************)
Listed == 1..Len(products)

HasOverride(i) == savedEntry(savedPositions, products[i].barcode) # Undefined

\* the character codes of a digit string, summed from the last character
RECURSIVE CodeSum(_, _)
CodeSum(barcode, n) ==
    IF n = 0 THEN 0 ELSE CodeSum(barcode, n - 1) + 48 + DigitValue(barcode[n])

ExpectedZone(barcode) ==
    LET mod == CodeSum(barcode, Len(barcode)) % 100
    IN  CASE mod < 70 -> "Retail Floor"
          [] mod >= 70 /\ mod < 85 -> "Accessories"
          [] mod >= 85 -> "Back Storage"

\* C11: a product without a saved override is placed in the zone its
\* barcode alone determines: Retail Floor when (sum of character codes) % 100
\* is below 70, Accessories from 70 to 84, Back Storage from 85.
C11_ZoneFromBarcode ==
    \A i \in Listed :
        ~HasOverride(i) => allPositions[i].zone = ExpectedZone(products[i].barcode)

C11_Witness ==
    /\ Len(products) >= 4
    /\ products[1].barcode # Catalog[1]
    /\ products[1].frontQuantity = 10
    /\ { allPositions[i].zone : i \in Listed }
           = {"Retail Floor", "Accessories", "Back Storage"}
    /\ \E i \in Listed : hash(products[i].barcode) % 100 = 70
    /\ \E i \in Listed : hash(products[i].barcode) % 100 = 85

ZoneNamed(name) == ZONES[CHOOSE z \in 1..Len(ZONES) : ZONES[z].name = name]

\* lo <= a <= hi for a finite number a and integers lo, hi
Within(a, lo, hi) == a.k = "fin" /\ lo * a.d <= a.n /\ a.n <= hi * a.d

\* C12: every generated position lies at least 15 units inside the
\* rectangle of the zone it names.
C12_InsideZone ==
    \A i \in Listed :
        ~HasOverride(i) =>
            LET pos == allPositions[i]
                zone == ZoneNamed(pos.zone)
            IN  /\ Within(pos.x, zone.xMin + 15, zone.xMax - 15)
                /\ Within(pos.y, zone.yMin + 15, zone.yMax - 15)

\* a list long enough for the clamp to act at both ends of a zone
C12_Witness ==
    /\ Len(products) = 13
    /\ \E i \in Listed : allPositions[i].zone = "Accessories" /\ allPositions[i].y = Fin(55, 1)
    /\ \E i \in Listed : allPositions[i].zone = "Accessories" /\ allPositions[i].y = Fin(155, 1)

\* C13: nine products with distinct barcodes and nothing saved are laid
\* out on a grid of 3 columns and 3 rows and no two of them share (x, y).
C13_NineDistinct ==
    (Len(products) = 9 /\ \A i \in Listed : ~HasOverride(i)) =>
        /\ \A i \in Listed :
               gridCell(i - 1, 9) = [cols |-> 3, rows |-> 3,
                                     row |-> (i - 1) \div 3, col |-> (i - 1) % 3]
        /\ \A i, j \in Listed :
               i # j => ~(/\ allPositions[i].x = allPositions[j].x
                          /\ allPositions[i].y = allPositions[j].y)

\* nine products, two of them with the same character-code sum in one row
C13_Witness ==
    /\ Len(products) = 9
    /\ \A i, j \in Listed : i # j => products[i].barcode # products[j].barcode
    /\ \E i, j \in Listed :
           /\ i # j
           /\ hash(products[i].barcode) = hash(products[j].barcode)
           /\ (i - 1) \div 3 = (j - 1) \div 3

(***************************************************************************)
(* Properties of the saved positions and the filters (checked under        *)
(* SpecFloor)                                                              *)
(***************************************************************************)
Mounted == phase = "mounted"

C14_ResolvedState ==
    Mounted =>
        /\ \A i \in Listed :
               HasOverride(i) =>
                   LET e == savedEntry(savedPositions, products[i].barcode)
                   IN  /\ allPositions[i].x = Fin(e.x, 1)
                       /\ allPositions[i].y = Fin(e.y, 1)
        /\ lastAction.op = "drag" =>
               savedEntry(savedPositions, lastAction.barcode)
                   = SavedPosition(lastAction.x, lastAction.y)

C14_OthersKeptStep ==
    /\ lastAction'.op = "drag" =>
           \A b \in FloorBarcodes :
               b # lastAction'.barcode =>
                   savedEntry(savedPositions', b) = savedEntry(savedPositions, b)
    /\ lastAction'.op \in {"fetch", "filter"} => savedPositions' = savedPositions

\* C14: the position resolved for a dragged barcode is exactly the (x, y) of
\* its most recent commit, not snapped or clamped to a zone, and a commit
\* for one barcode leaves the overrides of the other barcodes unchanged.
C14_CommitIsExact == []C14_ResolvedState /\ [][C14_OthersKeptStep]_vars

C14_Witness ==
    /\ Mounted
    /\ Len(products) = 2
    /\ lastAction = Did("drag", Catalog[2], 600, 50)
    /\ savedEntry(savedPositions, Catalog[1]) = SavedPosition(785, 210)
    /\ allPositions[2].x = Fin(600, 1)

\* C15: after handleResetPositions the override map is empty, the storage
\* key is removed and every product is at its generated position.
C15_ResetRestoresDefaults ==
    (Mounted /\ lastAction.op = "reset") =>
        /\ savedPositions = JsonObject(EmptyMap)
        /\ storage = NoItem
        /\ \A i \in Listed :
               allPositions[i] = autoPosition(products[i], i - 1, Len(products))

C15_Witness ==
    /\ Mounted
    /\ lastAction.op = "reset"
    /\ Len(products) = 2
    /\ storage = NoItem

\* C16: the mapping stored under the key equals the override map in memory
\* (no item counting as the empty map): a commit writes the whole map, a
\* reset removes the item.
C16_StoredEqualsMemory ==
    Mounted =>
        /\ loadSavedPositions(storage) = savedPositions
        /\ lastAction.op = "drag" =>
               /\ storage.present /\ storage.syntax = "object"
               /\ JSONparse(storage) = savedPositions
        /\ lastAction.op = "reset" => ~storage.present

C16_Witness ==
    /\ Mounted
    /\ lastAction.op = "drag"
    /\ Cardinality(DOMAIN savedPositions.map) = 2
    /\ Len(storage.members) = 2

Contains(zone, pt) ==
    /\ zone.xMin <= pt.x /\ pt.x <= zone.xMax
    /\ zone.yMin <= pt.y /\ pt.y <= zone.yMax

ExpectedZoneOfPoint(pt) ==
    IF \E z \in 1..Len(ZONES) : Contains(ZONES[z], pt)
    THEN LET first == CHOOSE z \in 1..Len(ZONES) :
                          /\ Contains(ZONES[z], pt)
                          /\ \A w \in 1..(z - 1) : ~Contains(ZONES[w], pt)
         IN  ZONES[first].name
    ELSE "Retail Floor"

\* C17: the zone of a product with a saved override is the first zone whose
\* rectangle, bounds included, contains the point, Retail Floor when none
\* does; the coordinates are kept even outside every zone.
C17_ZoneOfOverride ==
    Mounted =>
        \A i \in Listed :
            HasOverride(i) =>
                LET e == savedEntry(savedPositions, products[i].barcode)
                IN  /\ allPositions[i].zone = ExpectedZoneOfPoint(e)
                    /\ allPositions[i].x = Fin(e.x, 1)
                    /\ allPositions[i].y = Fin(e.y, 1)

C17_Witness ==
    /\ Mounted
    /\ Len(products) = 2
    /\ savedEntry(savedPositions, products[1].barcode) = SavedPosition(785, 210)
    /\ allPositions[1].zone = "Back Storage"
    /\ savedEntry(savedPositions, products[2].barcode) = SavedPosition(600, 50)
    /\ allPositions[2].zone = "Retail Floor"
    /\ allPositions[2].y = Fin(50, 1)

\* a payload that is not the JSON text of a barcode-to-{x, y} mapping
NotAMapping(item) == item.present /\ item.syntax # "object"

\* C18: whatever is stored under the key, loading and resolving never fail;
\* a payload that is not a mapping counts as no override and every product
\* gets its generated position.
C18_PayloadNeverFatal ==
    /\ phase # "crashed"
    /\ (Mounted /\ NotAMapping(storage)) =>
           \A i \in Listed :
               allPositions[i] = autoPosition(products[i], i - 1, Len(products))

Visible == filteredPositions(allPositions, filters)

IsCritical(pos) == getStockAdvice(pos.product).overall = "critical"

InSelectedZone(pos) == filters.selectedZone = "ALL" \/ pos.zone = filters.selectedZone

C20_FlagFiltersApplied ==
    Mounted =>
        /\ filters.showNeedsRestock =>
               \A i \in 1..Len(Visible) : getStockAdvice(Visible[i].product).needsRestock
        /\ filters.showNeedsReorder =>
               \A i \in 1..Len(Visible) : getStockAdvice(Visible[i].product).needsReorder

(***************************************************************************)
(* Properties of the drag gesture (checked under SpecDrag)                 *)
(***************************************************************************)
Entry(b) == savedEntry(savedPositions, b)

StoreChanged == savedPositions' # savedPositions \/ storage' # storage

IsReset == savedPositions' = JsonObject(EmptyMap) /\ storage' = NoItem

\* the dot of b leaves the dragging state although its product stays listed
DragEnds(b) == dots[b].dragging /\ ~dots'[b].dragging /\ products' = products

C21_DotState ==
    \A b \in CatalogBarcodes : dots[b].dragPos # Undefined => dots[b].dragging

C21_GestureStep ==
    /\ \A b \in CatalogBarcodes :
           \* pointer-down: idle to dragging, nothing else
           /\ (~dots[b].dragging /\ dots'[b].dragging) =>
                  /\ dots'[b].dragPos = Undefined
                  /\ ~StoreChanged
           \* pointer-move: only the local position
           /\ (dots[b].dragging /\ dots'[b].dragging /\ dots'[b].dragPos # dots[b].dragPos) =>
                  ~StoreChanged
           \* the end of a drag: back to idle, and nothing committed without a move
           /\ (dots[b].dragging /\ ~dots'[b].dragging) => dots'[b] = IdleDot
           /\ (DragEnds(b) /\ dots[b].dragPos = Undefined) => ~StoreChanged
    /\ StoreChanged =>
           \/ IsReset
           \/ \E b \in CatalogBarcodes : DragEnds(b) /\ dots[b].dragPos # Undefined

\* C21: each dot is idle or dragging; pointer-down starts a drag, pointer-move
\* only sets the dot's local position, the end of the drag returns to idle;
\* the override map and the stored item change only at a pointer-up that
\* ends a drag (or at a reset), and a pointer-up after no move commits nothing.
C21_DragStateMachine == []C21_DotState /\ [][C21_GestureStep]_vars

C21_Witness ==
    /\ lastAction = Did("drag", Catalog[1], 25, 675)
    /\ Entry(Catalog[1]) = SavedPosition(25, 675)
    /\ dots[Catalog[1]] = [dragging |-> TRUE, dragPos |-> Undefined]
    /\ dots[Catalog[2]] = [dragging |-> TRUE, dragPos |-> SavedPosition(600, 50)]
    /\ Entry(Catalog[2]) = Undefined

C22_IndependentStep ==
    \A b \in CatalogBarcodes :
        \* an entry changes only by a reset or by the commit of its own dot
        /\ Entry(b)' # Entry(b) =>
               \/ IsReset
               \/ DragEnds(b) /\ Entry(b)' = dots[b].dragPos
        \* a commit stores the dot's own last position and leaves the other
        \* entries and the other dots' drags as they are
        /\ (DragEnds(b) /\ dots[b].dragPos # Undefined) =>
               /\ Entry(b)' = dots[b].dragPos
               /\ \A c \in CatalogBarcodes \ {b} :
                      Entry(c)' = Entry(c) /\ dots'[c] = dots[c]

\* C22: drags of different products are independent: whatever the
\* interleaving of their pointer events, each commit writes the entry of its
\* own barcode only, so the map holds every product's own last committed
\* position, and no commit loses or overwrites another entry or disturbs
\* another drag in progress.
C22_DragsIndependent == [][C22_IndependentStep]_vars

\* both dots were dragging at once; the second commit kept the first entry
C22_Witness ==
    /\ lastAction = Did("drag", Catalog[2], 600, 50)
    /\ Entry(Catalog[2]) = SavedPosition(600, 50)
    /\ Entry(Catalog[1]) = SavedPosition(25, 675)
    /\ dots[Catalog[1]] = [dragging |-> TRUE, dragPos |-> SavedPosition(600, 50)]
    /\ Len(products) = 2

\* C23: from an empty store every resolved position lies in the viewBox
\* 0..1000 x 0..700, and every committed position in 25..975 x 25..675.
C23_InsideViewBox ==
    /\ \A i \in Listed :
           /\ Within(allPositions[i].x, 0, 1000)
           /\ Within(allPositions[i].y, 0, 700)
    /\ \A b \in CatalogBarcodes :
           Entry(b) # Undefined =>
               /\ 25 <= Entry(b).x /\ Entry(b).x <= 975
               /\ 25 <= Entry(b).y /\ Entry(b).y <= 675

\* the pointer left the viewBox and the dot was dropped on its border
C23_Witness ==
    /\ Len(products) = 2
    /\ HasOverride(1)
    /\ allPositions[1].x = Fin(25, 1) /\ allPositions[1].y = Fin(675, 1)
    /\ ~HasOverride(2)

C26_EditOnlyStep ==
    /\ \A b \in CatalogBarcodes : (~dots[b].dragging /\ dots'[b].dragging) => editMode
    /\ savedPositions' # savedPositions => editMode
    /\ (selectedProduct' # selectedProduct /\ selectedProduct' # NoProduct) => ~editMode

\* C26: positions change only in edit mode: a drag starts only while
\* editMode is true, the override map is never modified while editMode is
\* false, and a click opens the detail modal only while editMode is false.
C26_EditModeOnly == [][C26_EditOnlyStep]_vars

(***************************************************************************)
(* Properties of the card's stock flags (checked under Spec)               *)
(***************************************************************************)
\* C25: the flags of the forecast card agree with getStockAdvice for every
\* product: frontCritical <=> frontStatus = critical, frontLow <=>
\* frontStatus # healthy, the same for the back, and the card offers the
\* back-to-front restock only when needsRestock holds.
C25_CardAgreesWithAdvice ==
    Rendered =>
        /\ cardFrontCritical(product) <=> advice.frontStatus = "critical"
        /\ cardFrontLow(product) <=> advice.frontStatus # "healthy"
        /\ cardBackCritical(product) <=> advice.backStatus = "critical"
        /\ cardBackLow(product) <=> advice.backStatus # "healthy"
        /\ \A velocity \in BOOLEAN :
               offersRestock(product, velocity) => advice.needsRestock

\* an odd threshold, the front at the rounded-up half, the back low
C25_Witness ==
    /\ Rendered
    /\ product = Product(3, 4, 5)
    /\ cardFrontCritical(product) /\ ~cardBackCritical(product) /\ cardBackLow(product)
    /\ offersRestock(product, TRUE)
    /\ advice.needsRestock

(***************************************************************************)
(* Properties of the card's transaction requests (checked under SpecCard)  *)
(***************************************************************************)
CardStateChanged ==
    stats' # stats \/ txCount' # txCount \/ error' # error \/ loading' # loading

\* the request r settles in this step
Settles(r) == r \in requests /\ requests' = requests \ {r}

IsLive(r) == ~r.cancelled /\ r.product = product

C27_OneLiveRequest ==
    /\ \A r1, r2 \in requests : (~r1.cancelled /\ ~r2.cancelled) => r1 = r2
    /\ \A r \in requests : ~r.cancelled => product # NoProduct /\ r.product = product

C27_AppliedStep ==
    CardStateChanged =>
        \/ product = NoProduct
        \/ \E r \in requests : IsLive(r) /\ Settles(r)

\* C27: a response of a request issued before the product prop last changed
\* or before the card was unmounted never modifies stats, txCount, error or
\* loading; only the response of the most recent request is applied,
\* whatever the order the responses arrive in.
C27_StaleResponsesIgnored == []C27_OneLiveRequest /\ [][C27_AppliedStep]_vars

\* the statistics of the current product are shown while a request made
\* for the previous product has not been answered yet
C27_Witness ==
    /\ product = Product(0, 7, 5)
    /\ stats # NoStats /\ ~loading
    /\ \E r \in requests :
           r.cancelled /\ r.product = Product(5, 7, 5) /\ r.response = Ok(<<>>)

C28_SuccessStep ==
    \A r \in requests :
        (IsLive(r) /\ Settles(r) /\ r.response.ok) =>
            /\ ~loading' /\ ~error'
            /\ txCount' = Len(r.response.data)

\* C28: once the fetch for the current product has succeeded the card
\* shows the statistics or the no-history notice of that response and not
\* the error, even when an earlier fetch of the same card had failed.
C28_SuccessClearsError == [][C28_SuccessStep]_vars

(***************************************************************************)
(* Properties of handleConfirm (checked under SpecManager and              *)
(* SpecManagerFair)                                                        *)
(***************************************************************************)
\* C24: every transaction the backend accepted is eventually followed by a
\* call of onTransactionComplete, so that the product list is fetched again.
C24_RefreshAfterAccept ==
    \A n \in 1..MaxConfirms :
        (refreshLog.accepted >= n) ~> (refreshLog.refreshed >= n)

\* the transaction request c is sent in this step
Sends(c) == c \in calls' \ calls /\ c.kind = "transaction"

\* the transaction request c fails in this step
Fails(c) == c \in calls /\ c.kind = "transaction" /\ calls' = calls \ {c}

C30_ConfirmStep ==
    /\ \A c \in calls' :
           Sends(c) =>
               /\ manager.product # NoProduct
               /\ manager.action # NoAction
               /\ manager.quantity >= 1
               /\ c = Call(c.id, "transaction", manager.product, manager.action, manager.quantity)
               /\ manager'.message = "" /\ manager'.error = ""
    /\ \A c \in calls :
           Fails(c) =>
               /\ manager'.error = TransactionFailed
               /\ manager'.message = manager.message
               /\ refreshLog' = refreshLog
               /\ manager'.product = manager.product
               /\ manager'.action = manager.action
               /\ manager'.quantity = manager.quantity
               /\ manager'.wasteLocation = manager.wasteLocation
               /\ ~manager'.loading

\* C30: handleConfirm sends no request unless a product is loaded, an action
\* is selected and quantity >= 1; when the transaction request fails the
\* error is set, no success message is set, onTransactionComplete is not
\* called, product, action, quantity and waste location stay as they are,
\* and loading is cleared.
C30_FailedConfirm == [][C30_ConfirmStep]_vars

\* a waste of 3 units from the back failed
C30_Witness ==
    /\ manager.error = TransactionFailed
    /\ manager.message = ""
    /\ manager.product # NoProduct
    /\ manager.action = "waste" /\ manager.quantity = 3 /\ manager.wasteLocation = "BACK"
    /\ ~manager.loading
    /\ calls = {}
    /\ refreshLog = NothingLogged

(***************************************************************************)
(* Properties of toggleCamera (checked under SpecScanner)                  *)
(***************************************************************************)
\* C29: whenever cameraOpen is false no scanner is running, whatever the
\* order of the presses of the camera button, the delayed start, the
\* completions of start() and stop() and the scan callbacks.
C29_ClosedMeansStopped ==
    ~manager.cameraOpen =>
        \A i \in 1..Len(scanner.instances) : scanner.instances[i] # "scanning"

====
